---- MODULE Spec2Model ----
(***************************************************************************)
(* Lead-qualification chat workflow: the FastAPI endpoint POST /chat       *)
(* (workflow.py), the lead bot it drives (leadbot.py) and the email agent  *)
(* (emailagent.py).  One action is one whole HTTP request.  The completion *)
(* service, the spreadsheet service and the mail relay are the             *)
(* environment: every call to them draws its outcome from a small set.     *)
(* Texts are TLA+ strings; lower-casing and substring tests are computed   *)
(* character by character.                                                 *)
(***************************************************************************)
EXTENDS Integers, Sequences, FiniteSets, TLC

VARIABLES SESSIONS,      \* workflow.py SESSIONS: session id -> State
          lb_worksheet,  \* leadbot.worksheet is not None
          ea_worksheet,  \* emailagent.worksheet is not None
          sheet,         \* rows of the remote spreadsheet, header first
          outbox,        \* recipients of the messages the relay accepted
          turns,         \* number of POST /chat requests handled so far
          incidents,     \* number of unexpected collaborator outcomes so far
          last,          \* observation of the last request (what it called, what it returned)
          hist,          \* observation of the session so far
          call,          \* a function of the program applied on its own: arguments, progress, result
          threads,       \* concurrent requests: each worker thread's position in chat and its locals
          dicts,         \* the State dicts allocated so far (threads hold references to them)
          slot           \* session id -> the dict SESSIONS holds for it (0: no entry)

vars == <<SESSIONS, lb_worksheet, ea_worksheet, sheet, outbox, turns, incidents, last, hist, call,
          threads, dicts, slot>>

(***************************************************************************)
(* Bounds                                                                  *)
(***************************************************************************)
MaxTurns == 3

\* The largest value of send_email's parameter retries that is tried.
MaxRetries == 4

\* An incident is a collaborator outcome other than the expected one: a call
\* that fails, output that is malformed, the sentinel "NULL" returned as an
\* email, a reply that repeats the phrase of the confirmation prompt.
MaxIncidents == 1

SessionIds == {"s1"}

\* Python None (an absent request message, a JSON field that is missing).
None == "<None>"

(***************************************************************************)
(* Strings                                                                 *)
(***************************************************************************)
LowerChar(c) ==
    CASE c = "A" -> "a" [] c = "B" -> "b" [] c = "C" -> "c" [] c = "D" -> "d"
      [] c = "E" -> "e" [] c = "F" -> "f" [] c = "G" -> "g" [] c = "H" -> "h"
      [] c = "I" -> "i" [] c = "J" -> "j" [] c = "K" -> "k" [] c = "L" -> "l"
      [] c = "M" -> "m" [] c = "N" -> "n" [] c = "O" -> "o" [] c = "P" -> "p"
      [] c = "Q" -> "q" [] c = "R" -> "r" [] c = "S" -> "s" [] c = "T" -> "t"
      [] c = "U" -> "u" [] c = "V" -> "v" [] c = "W" -> "w" [] c = "X" -> "x"
      [] c = "Y" -> "y" [] c = "Z" -> "z" [] OTHER -> c

\* the lower-cased character at position i of s, nothing beyond its end
LowerAt(s, i) == IF i <= Len(s) THEN LowerChar(SubSeq(s, i, i)) ELSE ""

RECURSIVE Lower(_)
\* str.lower(): every character lower-cased, eight characters at a step
Lower(s) ==
    IF Len(s) = 0 THEN s
    ELSE LowerAt(s, 1) \o LowerAt(s, 2) \o LowerAt(s, 3) \o LowerAt(s, 4) \o
         LowerAt(s, 5) \o LowerAt(s, 6) \o LowerAt(s, 7) \o LowerAt(s, 8) \o
         Lower(SubSeq(s, 9, Len(s)))

\* Python's  kw in s  on strings
Contains(s, kw) ==
    \E i \in 1..(Len(s) - Len(kw) + 1) : SubSeq(s, i, i + Len(kw) - 1) = kw

\* Python truthiness of an optional string
Truthy(v) == v # None /\ v # ""

\* Python's  a or b
Or(a, b) == IF Truthy(a) THEN a ELSE b

(***************************************************************************)
(* Fixed texts of the program                                              *)
(***************************************************************************)
ConfirmationPrompt ==
    "Perfect! I've got all your details. Before we wrap up, is there anything else I can help you with today?"

\* the format string of the farewell, around {name} (the trailing emoji is left out)
Farewell(name) ==
    "Thank you for your interest, " \o name \o
    "! We've saved your details and sent you an email with next steps. Looking forward to our demo! Goodbye"

Apology ==
    "Sorry, I'm having trouble responding. Please try again or contact us directly!"

Greeting ==
    "Hi! I'm Technosurge's AI specialist. We help businesses with Intelligent AI solutions that typically reduce costs by 40-60%. What challenges is your business facing that AI could help solve?"

NoResponse == "No response generated"

DefaultLead == [name |-> "Unknown", email |-> "NULL", summary |-> None]

Header == <<"name", "email", "summary", "status">>

\* Outcomes of the reply call to the completion service.
ResponderOutcomes ==
    {[kind |-> "raise"],
     [kind |-> "text", text |-> "Tell me more about your business."],
     [kind |-> "text", text |-> "Is there Anything Else you need?"]}

EndKeywords ==
    <<"bye", "thanks", "goodbye", "stop", "end", "quit", "that's all", "finished", "no more">>

\* Request bodies: an absent message, or one of a few utterances (a closing
\* signal without an end keyword; an end keyword without a closing signal;
\* both).
RequestMessages == {None, "No", "bye", "that's all"}

\* The substring tests of the program are all of the form  kw in text.lower().
\* Their results for the texts and keywords that occur are computed once.
KnownTexts ==
    {ConfirmationPrompt, Apology, Greeting, NoResponse}
    \cup {Farewell(n) : n \in {"Unknown", "Alice"}}
    \cup {o.text : o \in {r \in ResponderOutcomes : r.kind = "text"}}
    \cup (RequestMessages \ {None})

KnownKeywords ==
    {EndKeywords[k] : k \in 1..Len(EndKeywords)} \cup {"anything else", "no", "nothing else"}

KeywordsIn == [t \in KnownTexts |-> {kw \in KnownKeywords : Contains(Lower(t), kw)}]

\* kw in text.lower()
InLower(kw, text) ==
    IF text \in KnownTexts /\ kw \in KnownKeywords THEN kw \in KeywordsIn[text]
    ELSE Contains(Lower(text), kw)

(***************************************************************************)
(* Intent Classifier                                                       *)
(***************************************************************************)
Threshold == 1

\* detect_intent with the overlap compared by > .
detect_intent_StrictThreshold(user_input) ==
    LET overlap == Cardinality({k \in 1..Len(EndKeywords) : InLower(EndKeywords[k], user_input)})
    IN  IF overlap > Threshold THEN "end" ELSE "general"

detect_intent(user_input) ==
    LET overlap == Cardinality({k \in 1..Len(EndKeywords) : InLower(EndKeywords[k], user_input)})
    IN  IF overlap >= Threshold THEN "end" ELSE "general"

(***************************************************************************)
(* Lead Extractor                                                          *)
(***************************************************************************)
\* A falsy lead argument (None or an empty dict).
NoLead == [absent |-> TRUE]

\* Outcomes of the extraction call to the completion service:
\*   raise      the call fails, or the reply has no text
\*   nonjson    the text is not JSON (json.JSONDecodeError)
\*   nonobject  the text is JSON but not an object (data.get raises AttributeError)
\*   json       the text is a JSON object; a missing field reads as None
\* The field "refused" only changes what is printed.
\* None stands for a field that is missing or JSON null (data.get gives None).
ExtractorFields == {None, "", "null", "NULL", "Alice", "a@x.com", "bob@x.com"}

ExtractorOutcomes ==
    {[kind |-> "raise"], [kind |-> "nonjson"], [kind |-> "nonobject"]}
    \cup {[kind |-> "json", name |-> n, email |-> e] : n \in ExtractorFields, e \in ExtractorFields}

\* analyze_details with the "null" test made without regard to case.
analyze_details_AnyNull(user_input, prev_lead, ext) ==
    LET prev_name  == IF prev_lead # NoLead THEN prev_lead.name ELSE None
        prev_email == IF prev_lead # NoLead THEN prev_lead.email ELSE None
        fallback   == IF prev_lead # NoLead THEN prev_lead ELSE DefaultLead
    IN  IF ext.kind = "json"
        THEN LET name  == IF Lower(Or(ext.name, "")) # "null" THEN ext.name ELSE prev_name
                 email == IF Lower(Or(ext.email, "")) # "null" THEN ext.email ELSE prev_email
             IN  [name    |-> Or(Or(name, prev_name), "Unknown"),
                  email   |-> Or(Or(email, prev_email), "NULL"),
                  summary |-> None]
        ELSE fallback

analyze_details(user_input, prev_lead, ext) ==
    LET prev_name  == IF prev_lead # NoLead THEN prev_lead.name ELSE None
        prev_email == IF prev_lead # NoLead THEN prev_lead.email ELSE None
        fallback   == IF prev_lead # NoLead THEN prev_lead ELSE DefaultLead
    IN  IF ext.kind = "json"
        THEN LET name  == IF ext.name # "null" THEN ext.name ELSE prev_name
                 email == IF ext.email # "null" THEN ext.email ELSE prev_email
             IN  [name    |-> Or(Or(name, prev_name), "Unknown"),
                  email   |-> Or(Or(email, prev_email), "NULL"),
                  summary |-> None]
        ELSE fallback

(***************************************************************************)
(* Lead Persister                                                          *)
(***************************************************************************)
\* Outcomes of the summary call and of worksheet.append_row.
SummaryOutcomes == {[kind |-> "raise"], [kind |-> "text", text |-> "Wants a demo."]}

AppendOutcomes == {"raise", "ok"}

\* Result: the lead (the dict is updated in place, so the caller's lead carries
\* the summary), the spreadsheet, and whether a row was appended.
save_lead_to_sheet(lead, conversation_history, ws, sh, sum, app) ==
    IF lead = NoLead \/ ~ws
    THEN [lead |-> lead, sheet |-> sh, appended |-> FALSE]
    ELSE IF sum.kind # "text"
    THEN [lead |-> lead, sheet |-> sh, appended |-> FALSE]
    ELSE LET withSummary == [lead EXCEPT !.summary = sum.text]
         IN  IF app = "raise"
             THEN [lead |-> withSummary, sheet |-> sh, appended |-> FALSE]
             ELSE [lead     |-> withSummary,
                   sheet    |-> Append(sh, <<lead.name, lead.email, sum.text, "">>),
                   appended |-> TRUE]

(***************************************************************************)
(* Conversation turn: Detector, Extractor, state machine, Responder        *)
(***************************************************************************)
\* Outcomes of the end-of-conversation call to the completion service:
\*   raise      the call fails, or the reply has no text
\*   nonjson    the text is not JSON (json.JSONDecodeError, caught)
\*   nonobject  the text is JSON but not an object (detection_data.get raises)
\*   json       a JSON object, with or without the field "ended"
DetectorOutcomes ==
    {[kind |-> "raise"], [kind |-> "nonjson"], [kind |-> "nonobject"],
     [kind |-> "json", has_ended |-> TRUE,  ended |-> TRUE],
     [kind |-> "json", has_ended |-> TRUE,  ended |-> FALSE],
     [kind |-> "json", has_ended |-> FALSE, ended |-> FALSE]}

UserTurn(content)      == [role |-> "user", content |-> content]
AssistantTurn(content) == [role |-> "assistant", content |-> content]

\* AskedAnythingElse that looks at the latest assistant message only.
AskedAnythingElse_LatestOnly(conversation_memory) ==
    \E i \in 1..Len(conversation_memory) :
        /\ conversation_memory[i].role = "assistant"
        /\ \A j \in (i + 1)..Len(conversation_memory) : conversation_memory[j].role # "assistant"
        /\ InLower("anything else", conversation_memory[i].content)

\* any("anything else" in msg["content"].lower() for msg in memory if msg["role"] == "assistant")
AskedAnythingElse(conversation_memory) ==
    \E i \in 1..Len(conversation_memory) :
        /\ conversation_memory[i].role = "assistant"
        /\ InLower("anything else", conversation_memory[i].content)

\* "no" in user_msg.lower() or "that's all" in user_msg.lower() or "nothing else" in user_msg.lower()
NegativeClosing(user_msg) ==
    \/ InLower("no", user_msg)
    \/ InLower("that's all", user_msg)
    \/ InLower("nothing else", user_msg)

\* Detection with a parse failure read as "ended".
Detection_FailClosed(intent, det) ==
    IF intent = "end"
    THEN [raised |-> FALSE, conversation_ended |-> TRUE, final_confirmation |-> TRUE]
    ELSE IF det.kind \in {"raise", "nonobject"}
    THEN [raised |-> TRUE, conversation_ended |-> FALSE, final_confirmation |-> FALSE]
    ELSE IF det.kind = "json"
    THEN LET ended == IF det.has_ended THEN det.ended ELSE FALSE
         IN  [raised |-> FALSE, conversation_ended |-> ended, final_confirmation |-> ended]
    ELSE [raised |-> FALSE, conversation_ended |-> TRUE, final_confirmation |-> TRUE]

\* The Detector's part of respond: the verdict, or the exception that leaves respond.
Detection(intent, det) ==
    IF intent = "end"
    THEN [raised |-> FALSE, conversation_ended |-> TRUE, final_confirmation |-> TRUE]
    ELSE IF det.kind \in {"raise", "nonobject"}
    THEN [raised |-> TRUE, conversation_ended |-> FALSE, final_confirmation |-> FALSE]
    ELSE IF det.kind = "json"
    THEN LET ended == IF det.has_ended THEN det.ended ELSE FALSE
         IN  [raised |-> FALSE, conversation_ended |-> ended, final_confirmation |-> ended]
    ELSE [raised |-> FALSE, conversation_ended |-> FALSE, final_confirmation |-> FALSE]

\* The Responder's part of respond: the reply and the memory after it.
Responder(conversation_memory, rsp) ==
    IF rsp.kind = "text"
    THEN [ai_reply |-> rsp.text, memory |-> Append(conversation_memory, AssistantTurn(rsp.text))]
    ELSE [ai_reply |-> Apology, memory |-> conversation_memory]

\* AskForConfirmation with the turn already reported as ended.
AskForConfirmation_Ends(turn) ==
    [turn EXCEPT !.ai_reply = ConfirmationPrompt,
                 !.memory = Append(turn.memory, AssistantTurn(ConfirmationPrompt)),
                 !.conversation_ended = TRUE,
                 !.branch = "confirm"]

\* The first branch of the closing block of respond: the fixed prompt is the
\* reply and the turn does not end.  turn is the result of respond so far.
AskForConfirmation(turn) ==
    [turn EXCEPT !.ai_reply = ConfirmationPrompt,
                 !.memory = Append(turn.memory, AssistantTurn(ConfirmationPrompt)),
                 !.conversation_ended = FALSE,
                 !.branch = "confirm"]

\* The result of respond before its branches: nothing returned yet.  given is
\* the memory the Detector, the Responder and the summary call of the Persister
\* are handed: the list as it is after line 132 (nothing is appended to it
\* before those calls).
TurnSoFar(prev_lead, conversation_memory, intent, sh) ==
    [raised |-> FALSE, ai_reply |-> None, lead |-> prev_lead,
     conversation_ended |-> FALSE, memory |-> conversation_memory,
     given |-> conversation_memory,
     sheet |-> sh, appended |-> FALSE, intent |-> intent,
     detector |-> intent # "end", extractor |-> FALSE,
     persister |-> FALSE, responder |-> FALSE, branch |-> "raise"]

\* The second branch of the closing block: the Persister runs (saved is its
\* result) and the farewell is the reply.
SayFarewell(turn, saved, reply) ==
    [turn EXCEPT !.ai_reply = reply, !.lead = saved.lead,
                 !.conversation_ended = TRUE,
                 !.memory = Append(turn.memory, AssistantTurn(reply)),
                 !.sheet = saved.sheet, !.appended = saved.appended,
                 !.persister = TRUE, !.branch = "farewell"]

\* The tail of respond: the Responder replies (r is its result) and the turn
\* returns the verdict it was left with.
Reply(turn, r, conversation_ended) ==
    [turn EXCEPT !.ai_reply = r.ai_reply, !.memory = r.memory,
                 !.conversation_ended = conversation_ended,
                 !.responder = TRUE, !.branch = "responder"]

\* respond from line 168 on: the lead is extracted, then the closing block and
\* the Responder.  turn is TurnSoFar with the extracted lead.
Decide(user_msg, turn, detection, ws, sh, env) ==
    IF /\ detection.conversation_ended
       /\ turn.lead.email # "NULL"
       /\ detection.final_confirmation
    THEN IF ~AskedAnythingElse(turn.memory)
         THEN AskForConfirmation(turn)
         ELSE IF NegativeClosing(user_msg)
         THEN SayFarewell(turn,
                          save_lead_to_sheet(turn.lead, turn.memory, ws, sh, env.sum, env.app),
                          Farewell(turn.lead.name))
         ELSE Reply(turn, Responder(turn.memory, env.rsp), FALSE)
    ELSE Reply(turn, Responder(turn.memory, env.rsp), detection.conversation_ended)

\* respond after the Detector: an exception leaves respond, otherwise the lead
\* is extracted and the turn is decided.
AfterDetection(user_msg, prev_lead, turn, detection, ws, sh, env) ==
    IF detection.raised
    THEN [turn EXCEPT !.raised = TRUE]
    ELSE Decide(user_msg,
                [turn EXCEPT !.lead = analyze_details(user_msg, prev_lead, env.ext),
                             !.extractor = TRUE],
                detection, ws, sh, env)

\* respond after the Intent Classifier
AfterIntent(user_msg, prev_lead, conversation_memory, intent, ws, sh, env) ==
    AfterDetection(user_msg, prev_lead,
                   TurnSoFar(prev_lead, conversation_memory, intent, sh),
                   Detection(intent, env.det), ws, sh, env)

\* respond(user_msg, prev_lead, conversation_memory).  env holds the outcomes of
\* the calls it makes: det, ext, rsp, sum, app.  ws and sh are leadbot.worksheet
\* and the spreadsheet.  The result says what was returned (or that it raised),
\* the spreadsheet afterwards, and which components ran.
respond(user_msg, prev_lead, memory0, ws, sh, env) ==
    AfterIntent(user_msg, prev_lead, Append(memory0, UserTurn(user_msg)),
                detect_intent(user_msg), ws, sh, env)

\* run_conversation_from_messages(messages, prev_lead): the memory is rebuilt from
\* the messages, the last user message is looked up, and respond gets both.
LastUserMsg(conversation_memory) ==
    LET users == {i \in 1..Len(conversation_memory) : conversation_memory[i].role = "user"}
    IN  IF users = {} THEN None
        ELSE conversation_memory[CHOOSE i \in users : \A j \in users : j <= i].content

\* run_conversation_from_messages once the last user message is known
Converse(last_user_msg, prev_lead, conversation_memory, ws, sh, env) ==
    IF ~Truthy(last_user_msg)
    THEN [raised |-> FALSE, ai_reply |-> Greeting,
          lead |-> IF prev_lead # NoLead THEN prev_lead
                   ELSE [name |-> "Unknown", email |-> "NULL", summary |-> "No input yet"],
          conversation_ended |-> FALSE, memory |-> conversation_memory,
          given |-> <<>>,
          sheet |-> sh, appended |-> FALSE, intent |-> "none",
          detector |-> FALSE, extractor |-> FALSE, persister |-> FALSE,
          responder |-> FALSE, branch |-> "greeting"]
    ELSE respond(last_user_msg, prev_lead, conversation_memory, ws, sh, env)

run_conversation_from_messages(messages, prev_lead, ws, sh, env) ==
    Converse(LastUserMsg(messages), prev_lead, messages, ws, sh, env)

(***************************************************************************)
(* Email agent                                                             *)
(***************************************************************************)
Retries == 3

\* Outcomes of the mail relay: relay[k] says whether attempt k is accepted.
RelayOutcomes == [1..Retries -> BOOLEAN]

\* The loop of send_email, one step at a time.  A loop state holds the relay's
\* outcomes, the bound, the loop variable attempt, where the loop stands (about
\* to attempt, about to sleep, returned), the value returned, and what has
\* happened so far: the attempts made, the delays taken, the events in order.
SendStart(relay, retries) ==
    [relay |-> relay, retries |-> retries, attempt |-> 1,
     pc |-> IF retries >= 1 THEN "attempt" ELSE "returned",
     success |-> FALSE, attempts |-> 0, sleeps |-> 0, events |-> <<>>]

\* the body of the loop up to the return or the sleep, with the test of the
\* last attempt off by one
SendAttempt_SleepsAfterLast(c) ==
    LET tried == [c EXCEPT !.attempts = @ + 1, !.events = Append(@, "attempt")]
    IN  IF c.relay[c.attempt]
        THEN [tried EXCEPT !.pc = "returned", !.success = TRUE]
        ELSE IF c.attempt <= c.retries /\ c.attempt + 1 \in DOMAIN c.relay
        THEN [tried EXCEPT !.pc = "sleep"]
        ELSE [tried EXCEPT !.pc = "returned", !.success = FALSE]

\* the body of the loop up to the return or the sleep
SendAttempt(c) ==
    LET tried == [c EXCEPT !.attempts = @ + 1, !.events = Append(@, "attempt")]
    IN  IF c.relay[c.attempt]
        THEN [tried EXCEPT !.pc = "returned", !.success = TRUE]
        ELSE IF c.attempt < c.retries
        THEN [tried EXCEPT !.pc = "sleep"]
        ELSE [tried EXCEPT !.pc = "returned", !.success = FALSE]

\* time.sleep(delay), then the next iteration
SendSleep(c) ==
    [c EXCEPT !.pc = "attempt", !.attempt = @ + 1, !.sleeps = @ + 1,
              !.events = Append(@, "delay")]

RECURSIVE SendLoop(_)
SendLoop(c) ==
    IF c.pc = "attempt" THEN SendLoop(SendAttempt(c))
    ELSE IF c.pc = "sleep" THEN SendLoop(SendSleep(c))
    ELSE c

\* send_email(to_email, subject, body, retries): success, the number of attempts
\* made and the number of delays taken.
send_email(relay, retries) ==
    LET c == SendLoop(SendStart(relay, retries))
    IN  [success |-> c.success, attempts |-> c.attempts, sleeps |-> c.sleeps]

\* worksheet.find(value): the row of the first cell holding the value, 0 for no cell.
FindRow(sh, value) ==
    LET rows == {i \in 1..Len(sh) : \E c \in 1..Len(sh[i]) : sh[i][c] = value}
    IN  IF rows = {} THEN 0 ELSE CHOOSE i \in rows : \A j \in rows : i <= j

\* worksheet.update_cell(row, 4, value)
UpdateStatus(sh, row, value) == [sh EXCEPT ![row][4] = value]

SheetCallOutcomes == {"raise", "ok"}

\* send_email_to_lead after send_email: sent is its result and row the row
\* worksheet.find comes to.
AfterSend(sent, row, sh, env) ==
    IF ~sent.success THEN [success |-> FALSE, sheet |-> sh, delivered |-> FALSE]
    ELSE IF env.find = "raise" THEN [success |-> FALSE, sheet |-> sh, delivered |-> TRUE]
    ELSE IF row = 0 THEN [success |-> TRUE, sheet |-> sh, delivered |-> TRUE]
    ELSE IF env.upd = "raise" THEN [success |-> FALSE, sheet |-> sh, delivered |-> TRUE]
    ELSE [success |-> TRUE, sheet |-> UpdateStatus(sh, row, "SENT"), delivered |-> TRUE]

\* send_email_to_lead(lead).  env.relay, env.find and env.upd are the outcomes of
\* the relay, of worksheet.find and of worksheet.update_cell.
send_email_to_lead(lead, ws, sh, env) ==
    IF ~ws THEN [success |-> FALSE, sheet |-> sh, delivered |-> FALSE]
    ELSE IF ~Truthy(lead.email) \/ lead.email = "NULL"
    THEN [success |-> FALSE, sheet |-> sh, delivered |-> FALSE]
    ELSE AfterSend(send_email(env.relay, Retries), FindRow(sh, lead.email), sh, env)

(***************************************************************************)
(* Workflow graph: leadbot -> (emailagent | END)                           *)
(***************************************************************************)
HumanMessage(content) == [type |-> "human", content |-> content]
AIMessage(content)    == [type |-> "ai", content |-> content]

\* the conversion loop at the head of leadbot_node
LeadbotMessages(messages) ==
    [i \in 1..Len(messages) |->
        IF messages[i].type = "human" THEN UserTurn(messages[i].content)
        ELSE AssistantTurn(messages[i].content)]

\* NodeState with lead_saved kept once it has been set.
NodeState_KeepsSaved(state, result) ==
    [result |-> result,
     state  |-> [messages           |-> Append(state.messages, AIMessage(result.ai_reply)),
                 lead_saved         |-> state.lead_saved \/ result.conversation_ended,
                 emails_sent        |-> state.emails_sent,
                 latest_lead        |-> result.lead,
                 conversation_ended |-> result.conversation_ended]]

\* leadbot_node from line 40 on: the result of the lead bot is written into the
\* state.
NodeState(state, result) ==
    [result |-> result,
     state  |-> [messages           |-> Append(state.messages, AIMessage(result.ai_reply)),
                 lead_saved         |-> result.conversation_ended,
                 emails_sent        |-> state.emails_sent,
                 latest_lead        |-> result.lead,
                 conversation_ended |-> result.conversation_ended]]

\* leadbot_node(state): the state after the node, and what the lead bot did.
leadbot_node(state, ws, sh, env) ==
    NodeState(state,
              run_conversation_from_messages(
                  LeadbotMessages(state.messages),
                  IF state.latest_lead # NoLead THEN state.latest_lead ELSE DefaultLead,
                  ws, sh, env))

route_after_leadbot(state) ==
    IF state.conversation_ended /\ state.latest_lead.email # "NULL" THEN "emailagent" ELSE "END"

\* emailagent_node once send_email_to_lead has returned r
Emailed(state, r) ==
    [state |-> [state EXCEPT !.emails_sent = r.success], sheet |-> r.sheet,
     called |-> TRUE, delivered |-> r.delivered]

\* emailagent_node(state): the state after the node, the spreadsheet, whether
\* send_email_to_lead was called and whether the relay accepted the message.
emailagent_node(state, ws, sh, env) ==
    IF state.latest_lead = NoLead
    THEN [state |-> [state EXCEPT !.emails_sent = FALSE], sheet |-> sh,
          called |-> FALSE, delivered |-> FALSE]
    ELSE IF Truthy(state.latest_lead.email) /\ state.latest_lead.email # "NULL"
    THEN Emailed(state, send_email_to_lead(state.latest_lead, ws, sh, env))
    ELSE [state |-> [state EXCEPT !.emails_sent = FALSE], sheet |-> sh,
          called |-> FALSE, delivered |-> FALSE]

\* graph.invoke after the email agent node
AfterEmailagent(lb, ea) ==
    [raised |-> FALSE, state |-> ea.state, sheet |-> ea.sheet, result |-> lb.result,
     email_called |-> ea.called, delivered |-> ea.delivered]

\* graph.invoke after the leadbot node (lb is its result): an exception in the
\* node leaves invoke, otherwise the route is taken.
AfterLeadbot(state, lb, eaws, env) ==
    IF lb.result.raised
    THEN [raised |-> TRUE, state |-> state, sheet |-> lb.result.sheet, result |-> lb.result,
          email_called |-> FALSE, delivered |-> FALSE]
    ELSE IF route_after_leadbot(lb.state) = "emailagent"
    THEN AfterEmailagent(lb, emailagent_node(lb.state, eaws, lb.result.sheet, env))
    ELSE [raised |-> FALSE, state |-> lb.state, sheet |-> lb.result.sheet,
          result |-> lb.result, email_called |-> FALSE, delivered |-> FALSE]

\* graph.invoke(state): leadbot, then emailagent when the route says so.
graph_invoke(state, lbws, eaws, sh, env) ==
    AfterLeadbot(state, leadbot_node(state, lbws, sh, env), eaws, env)

(***************************************************************************)
(* POST /chat/{session_id}                                                 *)
(***************************************************************************)
\* The extraction outcomes drawn during a chat turn.
TurnExtractorOutcomes ==
    {[kind |-> "raise"], [kind |-> "nonjson"],
     [kind |-> "json", name |-> "null",  email |-> "null"],
     [kind |-> "json", name |-> "Alice", email |-> "a@x.com"],
     [kind |-> "json", name |-> "null",  email |-> "NULL"]}

NotCalled == [kind |-> "notcalled"]

NoEnv == [det |-> NotCalled, ext |-> NotCalled, rsp |-> NotCalled, sum |-> NotCalled,
          app |-> "notcalled", relay |-> [k \in 1..Retries |-> TRUE],
          find |-> "notcalled", upd |-> "notcalled"]

\* the entry chat creates for a session id it has not seen
NewState ==
    [messages |-> <<>>, lead_saved |-> FALSE, emails_sent |-> FALSE,
     latest_lead |-> DefaultLead, conversation_ended |-> FALSE]

StateOf(sid) == IF sid \in DOMAIN SESSIONS THEN SESSIONS[sid] ELSE NewState

\* the ai_reply of the response: the content of the last AIMessage
LastAIReply(messages) ==
    LET ais == {i \in 1..Len(messages) : messages[i].type = "ai"}
    IN  IF ais = {} THEN NoResponse
        ELSE messages[CHOOSE i \in ais : \A j \in ais : j <= i].content

Response(final_state) ==
    [status |-> "ok", ai_reply |-> LastAIReply(final_state.messages),
     lead |-> final_state.latest_lead, lead_saved |-> final_state.lead_saved,
     emails_sent |-> final_state.emails_sent,
     conversation_ended |-> final_state.conversation_ended]

\* an exception left chat: the HTTP layer answers 500
ErrorResponse ==
    [status |-> "error", ai_reply |-> None, lead |-> NoLead, lead_saved |-> FALSE,
     emails_sent |-> FALSE, conversation_ended |-> FALSE]

\* The conversation state of section 4.7, read off a session state.
Phase(state) ==
    IF state.conversation_ended THEN "ENDED"
    ELSE IF /\ Len(state.messages) > 0
            /\ state.messages[Len(state.messages)] = AIMessage(ConfirmationPrompt)
    THEN "AWAITING_FINAL_CONFIRMATION"
    ELSE "ONGOING"

\* What the Detector step came to: "raise" (an exception left it), "nonjson"
\* (the parse failure that is caught), "ended", "notended", "notcalled".
DetectorVerdict(det) ==
    IF det.kind = "json" THEN (IF det.has_ended /\ det.ended THEN "ended" ELSE "notended")
    ELSE IF det.kind = "nonobject" THEN "raise"
    ELSE det.kind

\* state with the request's message appended (chat, before graph.invoke)
WithMessage(state, msg) ==
    IF Truthy(msg) THEN [state EXCEPT !.messages = Append(@, HumanMessage(msg))] ELSE state

\* What chat leaves behind once graph.invoke has returned or raised (run): the
\* session entry, the spreadsheet, what the request called and the response.
ChatRecord(before, state, run) ==
    [final_state  |-> IF run.raised THEN state ELSE run.state,
     sheet        |-> run.sheet,
     response     |-> IF run.raised THEN ErrorResponse ELSE Response(run.state),
     result       |-> run.result,
     email_called |-> run.email_called,
     delivered    |-> run.delivered,
     phase        |-> Phase(before),
     asked        |-> AskedAnythingElse(LeadbotMessages(before.messages))]

\* chat with the message appended to the session's state
Invoke(before, state, env) ==
    ChatRecord(before, state, graph_invoke(state, lb_worksheet, ea_worksheet, sheet, env))

\* chat(session_id, req) up to its return
chat_run(session_id, msg, env) ==
    Invoke(StateOf(session_id), WithMessage(StateOf(session_id), msg), env)

\* One request, with the outcomes env of the calls it makes.
chat(session_id, msg, env) ==
    \E run \in {chat_run(session_id, msg, env)} :
        /\ SESSIONS' = [s \in DOMAIN SESSIONS \cup {session_id} |->
                            IF s = session_id THEN run.final_state ELSE SESSIONS[s]]
        /\ sheet' = run.sheet
        /\ outbox' = IF run.delivered THEN Append(outbox, run.final_state.latest_lead.email)
                     ELSE outbox
        /\ turns' = turns + 1
        /\ last' = [msg       |-> msg,
                    phase     |-> run.phase,
                    asked     |-> run.asked,
                    intent    |-> run.result.intent,
                    verdict   |-> DetectorVerdict(env.det),
                    branch    |-> run.result.branch,
                    detector  |-> run.result.detector,
                    extractor |-> run.result.extractor,
                    responder |-> run.result.responder,
                    persister |-> run.result.persister,
                    appended  |-> run.result.appended,
                    emailagent |-> run.email_called,
                    delivered |-> run.delivered,
                    given     |-> run.result.given,
                    find      |-> env.find,
                    upd       |-> env.upd,
                    response  |-> run.response]
        /\ hist' = [ended     |-> hist.ended \/ run.response.conversation_ended,
                    persists  |-> hist.persists + (IF run.result.persister THEN 1 ELSE 0),
                    emails    |-> hist.emails + (IF run.email_called THEN 1 ELSE 0),
                    prompts   |-> hist.prompts + (IF run.result.branch = "confirm" THEN 1 ELSE 0)]
        /\ UNCHANGED <<lb_worksheet, ea_worksheet, call, threads, dicts, slot>>

\* The relay outcomes drawn during a chat turn: accepted at once, at the second
\* attempt, at the last attempt, never.
TurnRelayOutcomes ==
    {relay \in RelayOutcomes : \A k \in 1..(Retries - 1) : relay[k] => relay[k + 1]}

\* The expected outcomes of the calls to the completion service; every other
\* outcome is an incident.
Expected ==
    {[kind |-> "notcalled"],
     [kind |-> "json", has_ended |-> TRUE, ended |-> TRUE],
     [kind |-> "json", has_ended |-> TRUE, ended |-> FALSE],
     [kind |-> "json", name |-> "null",  email |-> "null"],
     [kind |-> "json", name |-> "Alice", email |-> "a@x.com"],
     [kind |-> "text", text |-> "Tell me more about your business."],
     [kind |-> "text", text |-> "Wants a demo."]}

Incident(outcome) == IF outcome \in Expected THEN 0 ELSE 1

\* a spreadsheet call that raises is an incident
SheetIncident(outcome) == IF outcome = "raise" THEN 1 ELSE 0

\* a relay that refuses an attempt is an incident
RelayIncident(relay) == IF \A k \in 1..Retries : relay[k] THEN 0 ELSE 1

\* Chat draws an outcome for exactly the calls the request makes: each call's
\* outcome is drawn once the outcomes before it have decided that it is made.
Chat(session_id) ==
    /\ turns < MaxTurns
    /\ \E msg \in RequestMessages :
       \E r0 \in {chat_run(session_id, msg, NoEnv)} :
       \E det \in IF r0.result.detector
                  THEN {o \in DetectorOutcomes : incidents + Incident(o) <= MaxIncidents}
                  ELSE {NotCalled} :
       \E n1 \in {incidents + Incident(det)} :
       \E ext \in IF r0.result.extractor /\ ~Detection(r0.result.intent, det).raised
                  THEN {o \in TurnExtractorOutcomes : n1 + Incident(o) <= MaxIncidents}
                  ELSE {NotCalled} :
       \E n2 \in {n1 + Incident(ext)} :
       \E e2 \in {[NoEnv EXCEPT !.det = det, !.ext = ext]} :
       \E r2 \in {chat_run(session_id, msg, e2)} :
       \E rsp \in IF r2.result.responder
                  THEN {o \in ResponderOutcomes : n2 + Incident(o) <= MaxIncidents}
                  ELSE {NotCalled} :
       \E sum \in IF r2.result.persister /\ lb_worksheet
                  THEN {o \in SummaryOutcomes : n2 + Incident(o) <= MaxIncidents}
                  ELSE {NotCalled} :
       \E n3 \in {n2 + Incident(rsp) + Incident(sum)} :
       \E app \in IF sum.kind = "text"
                  THEN {o \in AppendOutcomes : n3 + SheetIncident(o) <= MaxIncidents}
                  ELSE {"notcalled"} :
       \E n4 \in {n3 + SheetIncident(app)} :
       \E mail \in {r2.email_called /\ ea_worksheet} :
       \E relay \in IF mail
                    THEN {o \in TurnRelayOutcomes : n4 + RelayIncident(o) <= MaxIncidents}
                    ELSE {[k \in 1..Retries |-> TRUE]} :
       \E n5 \in {n4 + RelayIncident(relay)} :
       \E find \in IF mail /\ send_email(relay, Retries).success
                   THEN {o \in SheetCallOutcomes : n5 + SheetIncident(o) <= MaxIncidents}
                   ELSE {"notcalled"} :
       \E n6 \in {n5 + SheetIncident(find)} :
       \E upd \in IF find = "ok"
                  THEN {o \in SheetCallOutcomes : n6 + SheetIncident(o) <= MaxIncidents}
                  ELSE {"notcalled"} :
           /\ chat(session_id, msg, [e2 EXCEPT !.rsp = rsp, !.sum = sum, !.app = app,
                                               !.relay = relay, !.find = find, !.upd = upd])
           /\ incidents' = n6 + SheetIncident(upd)

(***************************************************************************)
(* Specification                                                           *)
(***************************************************************************)
\* no function is being applied on its own
NoCall == [fn |-> "none"]

\* requests are handled one at a time: no worker thread is inside chat
Sequential ==
    /\ threads = <<>>
    /\ dicts = <<>>
    /\ slot = [s \in SessionIds |-> 0]

Init ==
    /\ SESSIONS = [s \in {} |-> NewState]
    /\ lb_worksheet \in BOOLEAN
    /\ ea_worksheet \in BOOLEAN
    /\ sheet = <<Header>>
    /\ outbox = <<>>
    /\ turns = 0
    /\ incidents = 0
    /\ last = [msg |-> None, phase |-> "ONGOING", asked |-> FALSE, intent |-> "none",
               verdict |-> "notcalled", branch |-> "none", detector |-> FALSE,
               extractor |-> FALSE, responder |-> FALSE, persister |-> FALSE,
               appended |-> FALSE, emailagent |-> FALSE, delivered |-> FALSE,
               given |-> <<>>, find |-> "notcalled", upd |-> "notcalled", response |-> ErrorResponse]
    /\ hist = [ended |-> FALSE, persists |-> 0, emails |-> 0, prompts |-> 0]
    /\ call = NoCall
    /\ Sequential

Next == \E session_id \in SessionIds : Chat(session_id)

Spec == Init /\ [][Next]_vars

(***************************************************************************)
(* Properties                                                              *)
(***************************************************************************)
Session == SESSIONS["s1"]

\* the last request returned a response (no exception left chat)
Answered == last.response.status = "ok"

\* the last request carried a user utterance
Uttered == Truthy(last.msg)

\* C1: after any chat turn whose response has conversation_ended=true, the
\* Persister was invoked during that turn and, if the lead's email is a real
\* value, the email agent was invoked during that turn.
C1_EndedTurnPersistsAndEmails ==
    (Answered /\ last.response.conversation_ended)
        => /\ last.persister
           /\ (last.response.lead.email # "NULL" => last.emailagent)

\* C2: over any sequence of chat turns of a session, the lead is appended to
\* the spreadsheet at most once and the follow-up email is sent at most once.
C2_SideEffectsAtMostOnce ==
    /\ Len(sheet) - 1 <= 1
    /\ Len(outbox) <= 1

\* C3: ENDED is terminal: a chat turn of a session whose state already had
\* conversation_ended=true reports conversation_ended=true again.
C3_EndedIsTerminal ==
    (Answered /\ last.phase = "ENDED") => last.response.conversation_ended

\* C4: on a turn where the Detector returns ended=true, the lead after
\* extraction has a real email and no earlier assistant turn contains
\* "anything else", the reply is the fixed confirmation prompt, the Persister is
\* not invoked, and the response has conversation_ended=false and
\* lead_saved=false.
C4_DetectorEndAsksForConfirmation ==
    (/\ Answered
     /\ last.verdict = "ended"
     /\ last.response.lead.email # "NULL"
     /\ ~last.asked)
        => /\ last.response.ai_reply = ConfirmationPrompt
           /\ ~last.persister
           /\ ~last.response.conversation_ended
           /\ ~last.response.lead_saved

\* a turn of C4 starting in ONGOING was taken, and it asked for confirmation
C4_Witness ==
    /\ Answered
    /\ last.phase = "ONGOING"
    /\ last.verdict = "ended"
    /\ last.response.lead.email # "NULL"
    /\ ~last.asked
    /\ last.branch = "confirm"
    /\ Phase(Session) = "AWAITING_FINAL_CONFIRMATION"

\* C5: when the session is awaiting final confirmation, every next user
\* utterance that contains a negative closing signal ends the conversation on
\* that turn: the Persister is invoked, the reply is the farewell message, and
\* the response has conversation_ended=true.
C5_NegativeSignalEnds ==
    (/\ Answered
     /\ Uttered
     /\ last.phase = "AWAITING_FINAL_CONFIRMATION"
     /\ NegativeClosing(last.msg))
        => /\ last.persister
           /\ last.response.ai_reply = Farewell(last.response.lead.name)
           /\ last.response.conversation_ended

\* C6: when the session is awaiting final confirmation, any next user utterance
\* that contains none of the negative closing signals revokes the ended
\* judgement: the Persister is not invoked, the reply comes from the Responder,
\* and the response has conversation_ended=false.
C6_OtherUtteranceResumes ==
    (/\ Answered
     /\ Uttered
     /\ last.phase = "AWAITING_FINAL_CONFIRMATION"
     /\ ~NegativeClosing(last.msg))
        => /\ ~last.persister
           /\ last.responder
           /\ ~last.response.conversation_ended

\* C7: on every turn in ONGOING whose user utterance makes the Intent Classifier
\* return end, the conversation goes directly to ENDED: the Responder produces
\* the reply, the Persister is invoked, and the response has
\* conversation_ended=true, without the confirmation prompt.
C7_EndIntentEndsDirectly ==
    (/\ Answered
     /\ Uttered
     /\ last.phase = "ONGOING"
     /\ last.intent = "end")
        => /\ last.responder
           /\ last.persister
           /\ last.response.conversation_ended
           /\ last.branch # "confirm"

\* C8: in every session state and in every chat response, lead_saved=true
\* implies conversation_ended=true, and lead_saved is never true before a turn
\* has returned conversation_ended=true.
C8_SavedImpliesEnded ==
    /\ \A sid \in DOMAIN SESSIONS :
          SESSIONS[sid].lead_saved => (SESSIONS[sid].conversation_ended /\ hist.ended)
    /\ Answered => (last.response.lead_saved => last.response.conversation_ended)

\* a session that ended, reported lead_saved=true
C8_Witness ==
    /\ "s1" \in DOMAIN SESSIONS
    /\ Session.lead_saved
    /\ Answered
    /\ last.response.lead_saved

\* C9: every chat turn completes with a status "ok" response that carries an
\* ai_reply, whatever the external collaborators do during the turn.
C9_TurnAlwaysAnswers ==
    turns > 0 => (Answered /\ Truthy(last.response.ai_reply))

\* C10: when the Detector's response cannot be parsed as JSON, ended defaults
\* to false for that turn: the turn does not end the conversation, does not
\* invoke the Persister, and the reply is produced by the Responder.
C10_UnparsableDetectionContinues ==
    last.verdict = "nonjson"
        => /\ Answered
           /\ ~last.response.conversation_ended
           /\ ~last.response.lead_saved
           /\ ~last.persister
           /\ ~last.emailagent
           /\ last.responder

\* the Detector's reply was unparsable on a turn of a session that had already
\* been asked for confirmation and has a real email
C10_Witness ==
    /\ last.verdict = "nonjson"
    /\ last.asked
    /\ Answered
    /\ last.response.lead.email # "NULL"
    /\ last.responder

(***************************************************************************)
(* The Lead Extractor on its own: analyze_details applied once to a        *)
(* previous lead and an outcome of the extraction call                     *)
(***************************************************************************)
\* the prev_lead arguments: none, the default lead, leads known in part or whole
PrevLeads ==
    {NoLead, DefaultLead,
     [name |-> "Alice",   email |-> "NULL",    summary |-> None],
     [name |-> "Unknown", email |-> "a@x.com", summary |-> None],
     [name |-> "Alice",   email |-> "a@x.com", summary |-> None],
     [name |-> "Alice",   email |-> "a@x.com", summary |-> "Wants a demo."]}

\* the collaborators and the observations of the chat workflow at rest
Quiet ==
    /\ lb_worksheet = TRUE
    /\ ea_worksheet = TRUE
    /\ sheet = <<Header>>
    /\ outbox = <<>>
    /\ turns = 0
    /\ incidents = 0
    /\ last = [msg |-> None, phase |-> "ONGOING", asked |-> FALSE, intent |-> "none",
               verdict |-> "notcalled", branch |-> "none", detector |-> FALSE,
               extractor |-> FALSE, responder |-> FALSE, persister |-> FALSE,
               appended |-> FALSE, emailagent |-> FALSE, delivered |-> FALSE,
               given |-> <<>>, find |-> "notcalled", upd |-> "notcalled", response |-> ErrorResponse]
    /\ hist = [ended |-> FALSE, persists |-> 0, emails |-> 0, prompts |-> 0]

\* every variable of the chat workflow at rest
Idle ==
    /\ SESSIONS = [s \in {} |-> NewState]
    /\ Quiet
    /\ Sequential

chat_vars == <<SESSIONS, lb_worksheet, ea_worksheet, sheet, outbox, turns, incidents, last, hist,
               threads, dicts, slot>>

ExtractorInit ==
    /\ Idle
    /\ \E user_input \in RequestMessages \ {None}, prev_lead \in PrevLeads,
          ext \in ExtractorOutcomes :
          call = [fn |-> "analyze_details", user_input |-> user_input,
                  prev_lead |-> prev_lead, ext |-> ext, done |-> FALSE,
                  result |-> NoLead]

\* the call returns
AnalyzeDetails ==
    /\ call.fn = "analyze_details"
    /\ ~call.done
    /\ call' = [call EXCEPT !.done = TRUE,
                            !.result = analyze_details(call.user_input, call.prev_lead, call.ext)]
    /\ UNCHANGED chat_vars

ExtractorNext == AnalyzeDetails

ExtractorSpec == ExtractorInit /\ [][ExtractorNext]_vars

\* analyze_details has returned
Extracted == call.fn = "analyze_details" /\ call.done

\* the lead the caller had before the call, the default lead when it had none
PreviousLead == IF call.prev_lead = NoLead THEN DefaultLead ELSE call.prev_lead

\* C11: analyze_details never raises, and whenever the completion service
\* fails, returns invalid JSON, or returns JSON with a missing name or email
\* field, the returned lead equals the previous lead in both fields (the
\* default lead {Unknown, NULL} when there was no previous lead).
C11_ExtractorFallsBackToPreviousLead ==
    (/\ Extracted
     /\ \/ call.ext.kind # "json"
        \/ call.ext.name = None
        \/ call.ext.email = None)
    => /\ call.result.name = PreviousLead.name
       /\ call.result.email = PreviousLead.email

\* what one field of the returned lead is, given the value the service returned
\* for it: kept from the previous lead, or overwritten by the returned value
FieldKept(field) == call.result[field] = PreviousLead[field]

FieldOverwritten(field) == call.result[field] = call.ext[field]

\* C12 (as stated): for name and for email independently, a returned value
\* equal to the literal string "null" keeps the previous value of the field and
\* every other returned value overwrites it.
C12_NullKeepsEveryOtherValueOverwrites ==
    (Extracted /\ call.ext.kind = "json")
    => \A field \in {"name", "email"} :
          IF call.ext[field] = "null" THEN FieldKept(field) ELSE FieldOverwritten(field)

\* C12 (amended): for name and for email independently, a returned value that
\* is the literal string "null", or is empty or null (falsy), keeps the
\* previous value of the field, and every other returned value overwrites it.
C12_NullOrEmptyKeepsElseOverwrites ==
    (Extracted /\ call.ext.kind = "json")
    => \A field \in {"name", "email"} :
          IF call.ext[field] = "null" \/ ~Truthy(call.ext[field])
          THEN FieldKept(field) ELSE FieldOverwritten(field)

\* the example of the merge rule: the previous name retained, the new email adopted
C12_Witness ==
    /\ Extracted
    /\ call.prev_lead = [name |-> "Alice", email |-> "NULL", summary |-> None]
    /\ call.ext = [kind |-> "json", name |-> "null", email |-> "bob@x.com"]
    /\ call.result.name = "Alice"
    /\ call.result.email = "bob@x.com"

(***************************************************************************)
(* The Email Sender on its own: the loop of send_email, step by step,      *)
(* against a relay that accepts or refuses each attempt                    *)
(***************************************************************************)
SenderInit ==
    /\ Idle
    /\ \E to_email \in {"a@x.com", "bob@x.com"}, retries \in 1..MaxRetries,
          relay \in [1..MaxRetries -> BOOLEAN] :
          call = [fn |-> "send_email", to_email |-> to_email,
                  loop |-> SendStart(relay, retries)]

\* one transmission attempt (lines 107-120 without the sleep)
Attempt ==
    /\ call.fn = "send_email"
    /\ call.loop.pc = "attempt"
    /\ call' = [call EXCEPT !.loop = SendAttempt(@)]
    /\ UNCHANGED chat_vars

\* the delay before the next attempt (line 117)
Sleep ==
    /\ call.fn = "send_email"
    /\ call.loop.pc = "sleep"
    /\ call' = [call EXCEPT !.loop = SendSleep(@)]
    /\ UNCHANGED chat_vars

SenderNext == Attempt \/ Sleep

SenderSpec == SenderInit /\ [][SenderNext]_vars

\* send_email was called with the default retries=3
DefaultRetries == call.fn = "send_email" /\ call.loop.retries = Retries

\* send_email has returned
Returned == call.fn = "send_email" /\ call.loop.pc = "returned"

\* the attempts, among those send_email may make, that the relay accepts
Accepted == {k \in 1..call.loop.retries : call.loop.relay[k]}

\* C13: send_email with retries=3 attempts transmission until the first
\* success or until 3 attempts have failed and returns true iff some attempt
\* succeeded; the number of attempts made is the index of the first successful
\* attempt, and 3 when all fail; a delay is taken only between two attempts,
\* never after the last one.
C13_SenderRetriesUntilFirstSuccess ==
    DefaultRetries =>
       /\ call.loop.attempts <= Retries
       /\ Returned =>
             /\ call.loop.success = (Accepted # {})
             /\ call.loop.success =>
                    /\ call.loop.attempts \in Accepted
                    /\ \A k \in Accepted : call.loop.attempts <= k
             /\ ~call.loop.success => call.loop.attempts = Retries
             /\ call.loop.sleeps = call.loop.attempts - 1
             /\ call.loop.events[Len(call.loop.events)] = "attempt"
             /\ \A i \in 1..(Len(call.loop.events) - 1) :
                    call.loop.events[i] # call.loop.events[i + 1]

\* attempt 2 of 3 succeeded: true is returned after one delay, without a third attempt
C13_Witness ==
    /\ DefaultRetries
    /\ Returned
    /\ ~call.loop.relay[1]
    /\ call.loop.relay[2]
    /\ call.loop.success
    /\ call.loop.events = <<"attempt", "delay", "attempt">>

(***************************************************************************)
(* Properties of the chat workflow: email status, absent message, memory   *)
(***************************************************************************)
\* the spreadsheet row that holds the email of the lead of the last response
LeadRow == FindRow(sheet, last.response.lead.email)

\* the email agent of the last request had its spreadsheet handle and no call to
\* the spreadsheet failed
StatusUpdatePossible ==
    /\ last.emailagent
    /\ ea_worksheet
    /\ last.find # "raise"
    /\ last.upd # "raise"

\* C14: after the email agent has handled a lead with a real email whose row
\* exists in the spreadsheet, the status cell of the row is SENT when the
\* delivery succeeded and FAILED when all delivery attempts failed.
C14_StatusCellMarked ==
    (StatusUpdatePossible /\ LeadRow > 0)
    => sheet[LeadRow][4] = IF last.delivered THEN "SENT" ELSE "FAILED"

\* C15: a failure of the status update (find-row or update-cell) never changes
\* the success flag: when the relay delivered the message, send_email_to_lead
\* returns true and the session's emails_sent is true.
C15_StatusUpdateFailureSwallowed ==
    (last.emailagent /\ last.delivered)
    => /\ last.response.emails_sent
       /\ Session.emails_sent

\* the request just handled (in a step) carried no message
AbsentMessageTurn == turns' = turns + 1 /\ last'.msg = None

\* C16: a turn with an absent message invokes neither the Detector, the
\* Extractor, the Persister nor the email agent, and leaves the session's
\* latest_lead, lead_saved, emails_sent and conversation_ended unchanged,
\* whatever messages the session holds.
C16_AbsentMessageIsNoOp ==
    [][AbsentMessageTurn =>
         /\ ~last'.detector /\ ~last'.extractor /\ ~last'.persister /\ ~last'.emailagent
         /\ StateOf("s1")'.latest_lead = StateOf("s1").latest_lead
         /\ StateOf("s1")'.lead_saved = StateOf("s1").lead_saved
         /\ StateOf("s1")'.emails_sent = StateOf("s1").emails_sent
         /\ StateOf("s1")'.conversation_ended = StateOf("s1").conversation_ended]_vars

\* what a step appends to the session's messages
AppendedMessages ==
    SubSeq(StateOf("s1")'.messages, Len(StateOf("s1").messages) + 1,
           Len(StateOf("s1")'.messages))

\* the messages before the step are a prefix of the messages after it
MessagesExtended ==
    /\ Len(StateOf("s1").messages) <= Len(StateOf("s1")'.messages)
    /\ SubSeq(StateOf("s1")'.messages, 1, Len(StateOf("s1").messages)) = StateOf("s1").messages

\* C17: the conversation memory of a session is append-only: the messages
\* before a turn are a prefix of the messages after it, and a turn with a
\* message appends exactly that user message followed by exactly one assistant
\* reply.
C17_MemoryAppendOnly ==
    [][turns' = turns + 1 =>
         /\ MessagesExtended
         /\ Truthy(last'.msg) =>
               /\ Len(AppendedMessages) = 2
               /\ AppendedMessages[1] = HumanMessage(last'.msg)
               /\ AppendedMessages[2].type = "ai"]_vars

\* C20: in every chat response, lead_saved=true implies that a row for the
\* session's lead was appended to the spreadsheet during the session.
C20_SavedMeansRowAppended ==
    (Answered /\ last.response.lead_saved) => LeadRow > 0

(***************************************************************************)
(* The Intent Classifier on its own: detect_intent applied once to an      *)
(* utterance                                                               *)
(***************************************************************************)
\* Utterances: a word or phrase (the end keywords in several cases, words that
\* hold a keyword inside them, near misses, other words) between a prefix and a
\* suffix.
IntentPrefixes == {"", "ok ", "I "}

IntentWords ==
    {"bye", "Thanks", "GOODBYE", "Stop", "end", "weekend", "QUIT", "That's All",
     "finished", "No More", "by", "thank", "sto p", "en d", "qui t", "thats all",
     "finish", "nomore", "hello", "No", ""}

IntentSuffixes == {"", "!", " please"}

Utterances == {p \o w \o x : p \in IntentPrefixes, w \in IntentWords, x \in IntentSuffixes}

IntentInit ==
    /\ Idle
    /\ \E user_input \in Utterances :
          call = [fn |-> "detect_intent", user_input |-> user_input, done |-> FALSE,
                  result |-> None]

\* the call returns
DetectIntent ==
    /\ call.fn = "detect_intent"
    /\ ~call.done
    /\ call' = [call EXCEPT !.done = TRUE, !.result = detect_intent(call.user_input)]
    /\ UNCHANGED chat_vars

IntentNext == DetectIntent

IntentSpec == IntentInit /\ [][IntentNext]_vars

\* detect_intent has returned
Classified == call.fn = "detect_intent" /\ call.done

\* the lower-cased utterance holds at least one end keyword as a substring
HoldsEndKeyword ==
    \E kw \in {"bye", "thanks", "goodbye", "stop", "end", "quit", "that's all",
                "finished", "no more"} : Contains(Lower(call.user_input), kw)

\* C18: for every utterance, detect_intent returns end iff the lower-cased
\* utterance contains at least one of the keywords bye, thanks, goodbye, stop,
\* end, quit, that's all, finished, no more as a substring, and general
\* otherwise; it changes nothing else.
C18_IntentIsEndIffKeyword ==
    Classified =>
       /\ call.result = IF HoldsEndKeyword THEN "end" ELSE "general"
       /\ Idle

\* an utterance classified end for a keyword in another case and inside a longer
\* text
C18_Witness ==
    /\ Classified
    /\ call.user_input = "ok That's All please"
    /\ call.result = "end"

(***************************************************************************)
(* Two requests for one session handled by two worker threads (chat is a   *)
(* plain def, so the server runs it in a thread pool).  A thread can be    *)
(* preempted between any two statements of chat.  graph.invoke copies the  *)
(* messages of its input when it starts (the add_messages channel) and     *)
(* returns a new dict, so it is one step here: only its reading of the     *)
(* input and its result matter to the session map.                         *)
(***************************************************************************)
ThreadIds == {"t1", "t2"}

\* the bodies of the two requests
RaceMessages == {None, "No", "bye"}

\* a session that a first turn "bye" with lead {Alice, a@x.com} has left
\* awaiting the final confirmation
AwaitingState ==
    [messages |-> <<HumanMessage("bye"), AIMessage(ConfirmationPrompt)>>,
     lead_saved |-> FALSE, emails_sent |-> FALSE,
     latest_lead |-> [name |-> "Alice", email |-> "a@x.com", summary |-> None],
     conversation_ended |-> FALSE]

\* the value of SESSIONS: each session id with an entry, and the dict it holds
Stored(sl, ds) == [s \in {x \in SessionIds : sl[x] # 0} |-> ds[sl[s]]]

\* the outcomes the collaborators give a racing request: every call succeeds
RaceEnv(det, ext) ==
    [det |-> det, ext |-> ext,
     rsp |-> [kind |-> "text", text |-> "Tell me more about your business."],
     sum |-> [kind |-> "text", text |-> "Wants a demo."],
     app |-> "ok", relay |-> [k \in 1..Retries |-> TRUE], find |-> "ok", upd |-> "ok"]

RaceInit ==
    /\ Quiet
    /\ call = NoCall
    /\ dicts \in {<<>>, <<AwaitingState>>}
    /\ slot = [s \in SessionIds |-> Len(dicts)]
    /\ SESSIONS = Stored(slot, dicts)
    /\ threads \in [ThreadIds -> {[pc |-> "check", session_id |-> "s1", msg |-> m,
                                    state |-> 0, final_state |-> NewState, final_dict |-> 0,
                                    reply |-> None]
                                   : m \in RaceMessages}]

race_frame == <<lb_worksheet, ea_worksheet, turns, incidents, last, hist, call>>

\* if session_id not in SESSIONS:
Check(t) ==
    /\ threads[t].pc = "check"
    /\ threads' = [threads EXCEPT ![t].pc =
                      IF slot[threads[t].session_id] = 0 THEN "create" ELSE "load"]
    /\ UNCHANGED <<SESSIONS, dicts, slot, sheet, outbox, race_frame>>

\* SESSIONS[session_id] = {...}
Create(t) ==
    /\ threads[t].pc = "create"
    /\ dicts' = Append(dicts, NewState)
    /\ slot' = [slot EXCEPT ![threads[t].session_id] = Len(dicts')]
    /\ SESSIONS' = Stored(slot', dicts')
    /\ threads' = [threads EXCEPT ![t].pc = "load"]
    /\ UNCHANGED <<sheet, outbox, race_frame>>

\* state = SESSIONS[session_id]
Load(t) ==
    /\ threads[t].pc = "load"
    /\ threads' = [threads EXCEPT ![t].state = slot[threads[t].session_id],
                                  ![t].pc = IF Truthy(threads[t].msg) THEN "append" ELSE "invoke"]
    /\ UNCHANGED <<SESSIONS, dicts, slot, sheet, outbox, race_frame>>

\* state["messages"].append(HumanMessage(content=req.message)): in place, on the
\* dict the thread holds, whoever else holds it
AppendMessage(t) ==
    /\ threads[t].pc = "append"
    /\ dicts' = [dicts EXCEPT ![threads[t].state].messages =
                                 Append(@, HumanMessage(threads[t].msg))]
    /\ SESSIONS' = Stored(slot, dicts')
    /\ threads' = [threads EXCEPT ![t].pc = "invoke"]
    /\ UNCHANGED <<slot, sheet, outbox, race_frame>>

\* final_state = graph.invoke(state): the graph runs on the dict the thread
\* holds as it is now; its result is a new dict, local to the thread
InvokeGraph(t) ==
    /\ threads[t].pc = "invoke"
    /\ \E det \in {[kind |-> "json", has_ended |-> TRUE, ended |-> TRUE],
                    [kind |-> "json", has_ended |-> TRUE, ended |-> FALSE]},
          ext \in {[kind |-> "json", name |-> "null",  email |-> "null"],
                    [kind |-> "json", name |-> "Alice", email |-> "a@x.com"]} :
       \E run \in {graph_invoke(dicts[threads[t].state], lb_worksheet, ea_worksheet, sheet,
                                 RaceEnv(det, ext))} :
          /\ ~run.raised
          /\ threads' = [threads EXCEPT ![t].final_state = run.state,
                                        ![t].reply = run.result.ai_reply,
                                        ![t].pc = "store"]
          /\ sheet' = run.sheet
          /\ outbox' = IF run.delivered THEN Append(outbox, run.state.latest_lead.email)
                       ELSE outbox
    /\ UNCHANGED <<SESSIONS, dicts, slot, race_frame>>

\* the dict the assignment puts into the map, with the thread's reply added to
\* the messages the entry holds at that moment
StoredState_Merged(t) ==
    [threads[t].final_state EXCEPT !.messages =
        Append(dicts[slot[threads[t].session_id]].messages, AIMessage(threads[t].reply))]

\* the dict the assignment puts into the map: the thread's final_state
StoredState(t) == threads[t].final_state

\* SESSIONS[session_id] = final_state, and the response is built from final_state
Store(t) ==
    /\ threads[t].pc = "store"
    /\ dicts' = Append(dicts, StoredState(t))
    /\ slot' = [slot EXCEPT ![threads[t].session_id] = Len(dicts')]
    /\ SESSIONS' = Stored(slot', dicts')
    /\ threads' = [threads EXCEPT ![t].pc = "done", ![t].final_dict = Len(dicts')]
    /\ UNCHANGED <<sheet, outbox, race_frame>>

RaceNext ==
    \E t \in ThreadIds :
        \/ Check(t)
        \/ Create(t)
        \/ Load(t)
        \/ AppendMessage(t)
        \/ InvokeGraph(t)
        \/ Store(t)

RaceSpec == RaceInit /\ [][RaceNext]_vars

\* both requests have returned
BothDone == \A t \in ThreadIds : threads[t].pc = "done"

\* the thread whose assignment to the map came last
LastWriter == CHOOSE t \in ThreadIds : threads[t].final_dict = slot["s1"]

\* the contents of the assistant messages of the stored session
StoredReplies ==
    {SESSIONS["s1"].messages[i].content :
        i \in {j \in 1..Len(SESSIONS["s1"].messages) : SESSIONS["s1"].messages[j].type = "ai"}}

\* C19: two interleaved requests for one session race on the map entry with
\* last-write-wins: once both have returned, the stored session is the final
\* state of the request that assigned last, whatever the other produced
\* (the witness is an interleaving in which the other request's reply is
\* missing from the stored session).
C19_LastWriteWins ==
    BothDone =>
       /\ \E t \in ThreadIds : threads[t].final_dict = slot["s1"]
       /\ SESSIONS["s1"] = threads[LastWriter].final_state

\* both requests carried a message and returned, and the stored session lacks
\* the reply, the lead and the flags of one of them
C19_Witness ==
    /\ BothDone
    /\ \E t \in ThreadIds :
          /\ t # LastWriter
          /\ Truthy(threads[t].msg)
          /\ Truthy(threads[LastWriter].msg)
          /\ threads[t].reply \notin StoredReplies
          /\ threads[t].final_state.latest_lead # SESSIONS["s1"].latest_lead
          /\ threads[t].final_state.conversation_ended # SESSIONS["s1"].conversation_ended

(***************************************************************************)
(* Properties of the chat workflow: the confirmation prompt, the memory    *)
(* the collaborators are given                                             *)
(***************************************************************************)
\* how many of the session's messages are the fixed confirmation prompt
PromptsInSession ==
    Cardinality({i \in 1..Len(StateOf("s1").messages) :
                    StateOf("s1").messages[i] = AIMessage(ConfirmationPrompt)})

\* C21: over any sequence of chat turns of a session the fixed confirmation
\* prompt is emitted at most once: once it has been emitted no later turn
\* emits it again, whatever the Detector returns.
C21_PromptAtMostOnce ==
    /\ hist.prompts <= 1
    /\ PromptsInSession <= 1
    /\ (last.branch = "confirm") => ~last.asked

\* the prompt was emitted in an earlier turn, and a later turn on which the
\* Detector returned ended=true with a real email did not emit it again
C21_Witness ==
    /\ hist.prompts = 1
    /\ PromptsInSession = 1
    /\ Answered
    /\ last.asked
    /\ last.verdict = "ended"
    /\ last.response.lead.email # "NULL"
    /\ last.branch # "confirm"

\* the session's history up to and including the utterance of the request of a
\* step, as the lead bot's role/content entries
HistoryWithUtterance ==
    LeadbotMessages(WithMessage(StateOf("s1"), last'.msg).messages)

\* C22: on every turn the conversation memory handed to the Detector, the
\* Responder and the summary call of the Persister is the session's message
\* history up to and including the latest user utterance, every turn once and
\* in order (the latest utterance is not duplicated).
C22_MemoryGivenIsHistory ==
    [][(/\ turns' = turns + 1
        /\ Truthy(last'.msg)
        /\ last'.detector \/ last'.responder \/ last'.persister)
       => last'.given = HistoryWithUtterance]_vars

====
